---- MODULE Spec2Model ----
(***************************************************************************)
(* Model of the rule reconciler of the ALB ingress controller              *)
(* (internal/alb/rs/rule.go): one Rule value holding a current and a       *)
(* desired elbv2.Rule, its service bindings and the deleted flag, and the  *)
(* operations NewDesiredRule, NewCurrentRule, Reconcile (with create,      *)
(* modify, delete, needsModification, conditionsEqual, conditionToMap,     *)
(* priority, TargetGroupArn), stripDesiredState and stripCurrentState.     *)
(*                                                                         *)
(* Go pointers are modelled as optional values: Nil is the nil pointer and *)
(* Ptr(x) a pointer to x.  Slices are sequences (a nil slice is <<>>).     *)
(* Go strings that the code converts (the rule priority) are sequences of  *)
(* one-character strings, so that formatting and parsing are computed.     *)
(***************************************************************************)
EXTENDS Integers, Sequences, FiniteSets, TLC

VARIABLES
    rs,            \* r.rs: [current, desired], each Nil or Ptr(elbv2.Rule)
    svc,           \* r.svc: [current, desired], each a service record
    deleted,       \* r.deleted
    targetGroups,  \* rOpts.TargetGroups: the owning load balancer's collection
    calls,         \* cloud calls issued by the last Reconcile, in order, each
                   \* with its input, whether it failed and the rules it returned
    events,        \* events emitted through rOpts.Eventf by the last Reconcile
    err,           \* TRUE iff the last Reconcile returned a non-nil error
    pre,           \* the Rule value as it was when the last Reconcile was invoked
    lastOp,        \* the operation that produced this state
    prevCalls,     \* when the last two operations were both Reconcile, the
                   \* calls of the earlier one as a list of [op, failed, echoed];
                   \* else Nil
    c1, c2,        \* arguments of conditionsEqual (specification SpecCond)
    ceOut,         \* its result: Nil before the call, then Ptr(BOOLEAN)
    prioIn,        \* the Priority option given to NewDesiredRule (SpecPrio)
    prioOut,       \* Nil, then Ptr(priority(...)) of the desired priority string
    options,       \* the options of a LoadBalancer: [current, desired] (SpecOpts)
    optOut         \* Nil, then Ptr(result of the last options.needsModification)

ruleVars == <<rs, svc, deleted, targetGroups, calls, events, err, pre, lastOp, prevCalls>>
condVars == <<c1, c2, ceOut>>
prioVars == <<prioIn, prioOut>>
optVars == <<options, optOut>>
vars == <<rs, svc, deleted, targetGroups, calls, events, err, pre, lastOp, prevCalls,
          c1, c2, ceOut, prioIn, prioOut, options, optOut>>

-----------------------------------------------------------------------------
(* Bounds of the model.                                                    *)

MaxPriority == 1
MaxTargetPort == 1
MaxConds == 2
MaxPriorityArg == 120
MaxPorts == 2

Strs == {"a", "b"}
Hostnames == {"a"}
Paths == {"a"}
ReportedPaths == {"a", "b"}
SvcNames == {"web", "api"}
DesiredSvcNames == {"web"}
SvcPorts == {80}
RuleArns == {"rule-1", "rule-2"}
ReportedRuleArns == {"rule-1"}
ReportedPriorities == {1}
ListenerArns == {"ls-1"}

-----------------------------------------------------------------------------
(* Pointers and sequences.                                                 *)

Nil == <<>>
Ptr(x) == <<x>>
Deref(p) == p[1]

SeqsUpTo(S, n) == UNION {[1..k -> S] : k \in 0..n}

Reverse(s) == [i \in 1..Len(s) |-> s[Len(s) + 1 - i]]

\* Duplicate-free sequences over S.
Perms(S) == {s \in [1..Cardinality(S) -> S] : \A i, j \in 1..Cardinality(S) : s[i] = s[j] => i = j}

-----------------------------------------------------------------------------
(* Priority strings.                                                       *)

Digits == <<"0", "1", "2", "3", "4", "5", "6", "7", "8", "9">>

DefaultPriority == <<"d", "e", "f", "a", "u", "l", "t">>

DigitVal(ch) == CHOOSE d \in 0..9 : Digits[d + 1] = ch

IsDigit(ch) == \E d \in 0..9 : Digits[d + 1] = ch

RECURSIVE FormatNat(_)
FormatNat(n) == IF n < 10 THEN <<Digits[n + 1]>> ELSE Append(FormatNat(n \div 10), Digits[(n % 10) + 1])

\* fmt.Sprintf("%v", i) for an int.
FormatInt(i) == IF i < 0 THEN <<"-">> \o FormatNat(0 - i) ELSE FormatNat(i)

RECURSIVE ParseNat(_)
ParseNat(s) == IF s = <<>> THEN 0 ELSE 10 * ParseNat(SubSeq(s, 1, Len(s) - 1)) + DigitVal(s[Len(s)])

\* strconv.ParseInt(s, 10, 64) with the error discarded: 0 on a syntax error.
ParseInt(s) ==
    LET signed == s # <<>> /\ s[1] \in {"-", "+"}
        body == IF signed THEN Tail(s) ELSE s
    IN  IF body = <<>> \/ \E i \in 1..Len(body) : ~IsDigit(body[i])
        THEN 0
        ELSE IF signed /\ s[1] = "-" THEN 0 - ParseNat(body) ELSE ParseNat(body)

\* Faulty variant: only the last character of the string is parsed.
priority_lastDigit(s) == IF s = DefaultPriority THEN 0 ELSE ParseInt(<<s[Len(s)]>>)

priority(s) == IF s = DefaultPriority THEN 0 ELSE ParseInt(s)

-----------------------------------------------------------------------------
(* Conditions.                                                             *)

Fields == {"host-header", "path-pattern"}

\* Value lists of a condition: the non-empty duplicate-free lists over Strs.
ValueLists == UNION {Perms(S) : S \in (SUBSET Strs) \ {{}}}

Conds == [Field : Fields, Values : ValueLists]

CondLists == SeqsUpTo(Conds, MaxConds)

FieldsOf(cs) == {cs[i].Field : i \in 1..Len(cs)}

DistinctFields(cs) == \A i, j \in 1..Len(cs) : cs[i].Field = cs[j].Field => i = j

DeepEqual(x, y) == x = y

\* A Go map as a function from its keys; a later condition of the same
\* field overwrites an earlier one.
conditionToMap(cs) ==
    [k \in FieldsOf(cs) |->
        cs[CHOOSE i \in 1..Len(cs) : cs[i].Field = k /\ \A j \in (i + 1)..Len(cs) : cs[j].Field # k].Values]

\* Faulty variant: the conditions are compared position by position.
conditionsEqual_positional(x1, x2) == DeepEqual(x1, x2)

\* Faulty variant: the keys of the second map are checked as well.
conditionsEqual_symmetric(x1, x2) ==
    LET cMap1 == conditionToMap(x1)
        cMap2 == conditionToMap(x2)
    IN  /\ \A k \in DOMAIN cMap1 : k \in DOMAIN cMap2 /\ DeepEqual(cMap1[k], cMap2[k])
        /\ \A k \in DOMAIN cMap2 : k \in DOMAIN cMap1

conditionsEqual(x1, x2) ==
    LET cMap1 == conditionToMap(x1)
        cMap2 == conditionToMap(x2)
    IN  \A k \in DOMAIN cMap1 : k \in DOMAIN cMap2 /\ DeepEqual(cMap1[k], cMap2[k])

-----------------------------------------------------------------------------
(* Rules, services and target groups.                                      *)

ZeroService == [name |-> "", port |-> 0, targetPort |-> 0]

TargetPorts == 0..MaxTargetPort

Priorities == 0..MaxPriority

\* The ARN of the target group of a service, once that target group exists.
TgArnOf(name) == "tg-" \o name

\* The targets a rule reported by the cloud may carry.
ReportedTargets == {Nil} \cup {Ptr(TgArnOf(n)) : n \in DesiredSvcNames}

ForwardAction(arn) == [TargetGroupArn |-> arn, Type |-> "forward"]

NewDesiredRuleOptions ==
    [Priority : Priorities, Hostname : Hostnames \cup {""}, IgnoreHostHeader : {Nil, Ptr(TRUE), Ptr(FALSE)},
     Path : Paths \cup {""}, SvcName : DesiredSvcNames, SvcPort : SvcPorts, TargetPort : TargetPorts]

NewDesiredRule(o) ==
    LET isDefault == o.Priority = 0
        hostCond == IF ~isDefault /\ o.Hostname # "" /\ o.IgnoreHostHeader # Nil /\ ~Deref(o.IgnoreHostHeader)
                    THEN <<[Field |-> "host-header", Values |-> <<o.Hostname>>]>>
                    ELSE <<>>
        pathCond == IF ~isDefault /\ o.Path # ""
                    THEN <<[Field |-> "path-pattern", Values |-> <<o.Path>>]>>
                    ELSE <<>>
        r == [Actions |-> <<ForwardAction(Nil)>>,
              Conditions |-> hostCond \o pathCond,
              IsDefault |-> isDefault,
              Priority |-> IF isDefault THEN DefaultPriority ELSE FormatInt(o.Priority),
              RuleArn |-> Nil]
    IN  [rs |-> [current |-> Nil, desired |-> Ptr(r)],
         svc |-> [current |-> ZeroService,
                  desired |-> [name |-> o.SvcName, port |-> o.SvcPort, targetPort |-> o.TargetPort]],
         deleted |-> FALSE]

\* The rules the cloud reports: every field at most once per rule, one
\* value per condition, the default rule without conditions.
CloudConds ==
    {[Field |-> "host-header", Values |-> <<h>>] : h \in Hostnames} \cup
    {[Field |-> "path-pattern", Values |-> <<p>>] : p \in ReportedPaths}

CloudCondLists == {cs \in SeqsUpTo(CloudConds, Cardinality(Fields)) : DistinctFields(cs)}

CloudRules ==
    [Actions : {<<ForwardAction(a)>> : a \in ReportedTargets},
     Conditions : {<<>>}, IsDefault : {TRUE}, Priority : {DefaultPriority},
     RuleArn : {Ptr(a) : a \in ReportedRuleArns}]
    \cup
    [Actions : {<<ForwardAction(a)>> : a \in ReportedTargets},
     Conditions : CloudCondLists, IsDefault : {FALSE},
     Priority : {FormatInt(p) : p \in ReportedPriorities},
     RuleArn : {Ptr(a) : a \in ReportedRuleArns}]

NewCurrentRuleOptions ==
    [SvcName : SvcNames, SvcPort : SvcPorts, TargetPort : TargetPorts, Rule : {Ptr(c) : c \in CloudRules}]

NewCurrentRule(o) ==
    [rs |-> [current |-> o.Rule, desired |-> Nil],
     svc |-> [current |-> [name |-> o.SvcName, port |-> o.SvcPort, targetPort |-> o.TargetPort],
              desired |-> ZeroService],
     deleted |-> FALSE]

\* A target group of the collection: its backend and its current ARN
\* (Nil until the target group has been created).
TargetGroupEntries ==
    [SvcName : DesiredSvcNames, SvcPort : SvcPorts, arn : {Nil}] \cup
    {[SvcName |-> n, SvcPort |-> p, arn |-> Ptr(TgArnOf(n))] : n \in SvcNames, p \in SvcPorts}

TargetGroupCollections ==
    {t \in SeqsUpTo(TargetGroupEntries, Cardinality(SvcNames)) :
        \A i, j \in 1..Len(t) : t[i].SvcName = t[j].SvcName => i = j}

\* tg.TargetGroups.LookupByBackend: the index of the first target group of
\* that backend, -1 when there is none.
LookupByBackend(tgs, backend) ==
    LET hits == {i \in 1..Len(tgs) : tgs[i].SvcName = backend.ServiceName /\ tgs[i].SvcPort = backend.ServicePort}
    IN  IF hits = {} THEN -1 ELSE CHOOSE i \in hits : \A j \in hits : i <= j

CurrentARN(t) == t.arn

\* Faulty variant: a lookup miss yields a pointer to the empty string.
TargetGroupArn_emptyOnMiss(r, tgs) ==
    LET i == LookupByBackend(tgs, [ServiceName |-> r.svc.desired.name, ServicePort |-> r.svc.desired.port])
    IN  IF i < 0 THEN Ptr("")
        ELSE IF CurrentARN(tgs[i]) = Nil THEN Ptr("") ELSE CurrentARN(tgs[i])

TargetGroupArn(r, tgs) ==
    LET i == LookupByBackend(tgs, [ServiceName |-> r.svc.desired.name, ServicePort |-> r.svc.desired.port])
    IN  IF i < 0 THEN Nil ELSE CurrentARN(tgs[i])

-----------------------------------------------------------------------------
(* Rule.needsModification.                                                 *)

\* Faulty variant: the target ports are compared without the zero sentinel.
needsModification_noSentinel(r) ==
    LET crs == r.rs.current
        drs == r.rs.desired
    IN  IF crs = Nil THEN TRUE
        ELSE IF ~DeepEqual(Deref(crs).Actions, Deref(drs).Actions) THEN TRUE
        ELSE IF ~conditionsEqual(Deref(crs).Conditions, Deref(drs).Conditions) THEN TRUE
        ELSE IF r.svc.current.name # r.svc.desired.name THEN TRUE
        ELSE IF r.svc.current.targetPort # r.svc.desired.targetPort THEN TRUE
        ELSE FALSE

\* Faulty variant: the condition lists are compared as lists.
needsModification_ordered(r) ==
    LET crs == r.rs.current
        drs == r.rs.desired
    IN  IF crs = Nil THEN TRUE
        ELSE IF ~DeepEqual(Deref(crs).Actions, Deref(drs).Actions) THEN TRUE
        ELSE IF ~DeepEqual(Deref(crs).Conditions, Deref(drs).Conditions) THEN TRUE
        ELSE IF r.svc.current.name # r.svc.desired.name THEN TRUE
        ELSE IF r.svc.current.targetPort # r.svc.desired.targetPort /\ r.svc.current.targetPort # 0 THEN TRUE
        ELSE FALSE

\* Faulty variant: the action lists are not compared.
needsModification_ignoresActions(r) ==
    LET crs == r.rs.current
        drs == r.rs.desired
    IN  IF crs = Nil THEN TRUE
        ELSE IF ~conditionsEqual(Deref(crs).Conditions, Deref(drs).Conditions) THEN TRUE
        ELSE IF r.svc.current.name # r.svc.desired.name THEN TRUE
        ELSE IF r.svc.current.targetPort # r.svc.desired.targetPort /\ r.svc.current.targetPort # 0 THEN TRUE
        ELSE FALSE

needsModification(r) ==
    LET crs == r.rs.current
        drs == r.rs.desired
    IN  IF crs = Nil THEN TRUE
        ELSE IF ~DeepEqual(Deref(crs).Actions, Deref(drs).Actions) THEN TRUE
        ELSE IF ~conditionsEqual(Deref(crs).Conditions, Deref(drs).Conditions) THEN TRUE
        ELSE IF r.svc.current.name # r.svc.desired.name THEN TRUE
        ELSE IF r.svc.current.targetPort # r.svc.desired.targetPort /\ r.svc.current.targetPort # 0 THEN TRUE
        ELSE FALSE

IsDesiredDefault(r) == IF r.rs.desired = Nil THEN FALSE ELSE Deref(r.rs.desired).IsDefault


-----------------------------------------------------------------------------
(* The cloud API.  The behaviour of the cloud at one call is an input of   *)
(* Reconcile: whether the call fails, the ARN it gives a created rule,     *)
(* whether it reports the conditions in another order than sent, and       *)
(* whether a modify answers with an empty rule list.                       *)

CloudBehaviours ==
    LET a0 == CHOOSE a \in RuleArns : TRUE
    IN  {[err |-> TRUE, arn |-> a0, reorder |-> FALSE, empty |-> FALSE],
         [err |-> FALSE, arn |-> a0, reorder |-> FALSE, empty |-> TRUE]} \cup
        [err : {FALSE}, arn : RuleArns, reorder : BOOLEAN, empty : {FALSE}]

CreateRule(in, cloud) ==
    [err |-> cloud.err,
     Rules |-> <<[Actions |-> in.Actions,
                  Conditions |-> IF cloud.reorder THEN Reverse(in.Conditions) ELSE in.Conditions,
                  IsDefault |-> FALSE,
                  Priority |-> FormatInt(in.Priority),
                  RuleArn |-> Ptr(cloud.arn)]>>]

\* rule: the rule in.RuleArn names, as the cloud holds it.
ModifyRule(in, cloud, rule) ==
    [err |-> cloud.err,
     Rules |-> IF cloud.empty THEN <<>>
               ELSE <<[rule EXCEPT !.Actions = in.Actions,
                                   !.Conditions = IF cloud.reorder THEN Reverse(in.Conditions) ELSE in.Conditions]>>]

DeleteRule(in, cloud) == [err |-> cloud.err]

Eventf(type, reason) == [type |-> type, reason |-> reason]

EventTypeNormal == "Normal"
EventTypeWarning == "Warning"

\* What an operation of Rule leaves behind: the Rule value, the cloud calls
\* it issued, the events it emitted and whether it returned an error.
Res(r, cs, es, e) == [r |-> r, calls |-> cs, events |-> es, err |-> e]

-----------------------------------------------------------------------------
(* Rule.create, Rule.modify, Rule.delete, Rule.Reconcile.                  *)

\* Faulty variant: the service binding is not adopted after the creation.
create_keepsBinding(r, rOpts, cloud) ==
    LET in == [Actions |-> Deref(r.rs.desired).Actions,
               Conditions |-> Deref(r.rs.desired).Conditions,
               ListenerArn |-> rOpts.ListenerArn,
               Priority |-> priority(Deref(r.rs.desired).Priority)]
        o == CreateRule(in, cloud)
        call == [op |-> "CreateRule", in |-> in, failed |-> o.err, out |-> o.Rules]
    IN  IF o.err
        THEN Res(r, <<call>>, <<Eventf(EventTypeWarning, "ERROR")>>, TRUE)
        ELSE Res([r EXCEPT !.rs.current = Ptr(o.Rules[1])],
                 <<call>>, <<>>, FALSE)

create(r, rOpts, cloud) ==
    LET in == [Actions |-> Deref(r.rs.desired).Actions,
               Conditions |-> Deref(r.rs.desired).Conditions,
               ListenerArn |-> rOpts.ListenerArn,
               Priority |-> priority(Deref(r.rs.desired).Priority)]
        o == CreateRule(in, cloud)
        call == [op |-> "CreateRule", in |-> in, failed |-> o.err, out |-> o.Rules]
    IN  IF o.err
        THEN Res(r, <<call>>, <<Eventf(EventTypeWarning, "ERROR")>>, TRUE)
        ELSE Res([r EXCEPT !.rs.current = Ptr(o.Rules[1]), !.svc.current = r.svc.desired],
                 <<call>>, <<>>, FALSE)

\* Faulty variant: the call carries the conditions of current.
modify_currentConditions(r, rOpts, cloud) ==
    LET in == [Actions |-> Deref(r.rs.desired).Actions,
               Conditions |-> Deref(r.rs.current).Conditions,
               RuleArn |-> Deref(r.rs.current).RuleArn]
        o == ModifyRule(in, cloud, Deref(r.rs.current))
        call == [op |-> "ModifyRule", in |-> in, failed |-> o.err, out |-> o.Rules]
    IN  IF o.err
        THEN Res(r, <<call>>, <<Eventf(EventTypeWarning, "ERROR")>>, TRUE)
        ELSE Res([r EXCEPT !.rs.current = IF Len(o.Rules) > 0 THEN Ptr(o.Rules[1]) ELSE @,
                           !.svc.current = r.svc.desired],
                 <<call>>, <<>>, FALSE)

\* Faulty variant: the service binding is adopted before the outcome is known.
modify_adoptsOnFailure(r, rOpts, cloud) ==
    LET in == [Actions |-> Deref(r.rs.desired).Actions,
               Conditions |-> Deref(r.rs.desired).Conditions,
               RuleArn |-> Deref(r.rs.current).RuleArn]
        o == ModifyRule(in, cloud, Deref(r.rs.current))
        call == [op |-> "ModifyRule", in |-> in, failed |-> o.err, out |-> o.Rules]
    IN  IF o.err
        THEN Res([r EXCEPT !.svc.current = r.svc.desired],
                 <<call>>, <<Eventf(EventTypeWarning, "ERROR")>>, TRUE)
        ELSE Res([r EXCEPT !.rs.current = IF Len(o.Rules) > 0 THEN Ptr(o.Rules[1]) ELSE @,
                           !.svc.current = r.svc.desired],
                 <<call>>, <<>>, FALSE)

\* Faulty variant: an answer without rules is treated as a failure.
modify_emptyIsError(r, rOpts, cloud) ==
    LET in == [Actions |-> Deref(r.rs.desired).Actions,
               Conditions |-> Deref(r.rs.desired).Conditions,
               RuleArn |-> Deref(r.rs.current).RuleArn]
        o == ModifyRule(in, cloud, Deref(r.rs.current))
        call == [op |-> "ModifyRule", in |-> in, failed |-> o.err, out |-> o.Rules]
    IN  IF o.err \/ Len(o.Rules) = 0
        THEN Res(r, <<call>>, <<Eventf(EventTypeWarning, "ERROR")>>, TRUE)
        ELSE Res([r EXCEPT !.rs.current = Ptr(o.Rules[1]), !.svc.current = r.svc.desired],
                 <<call>>, <<>>, FALSE)

\* Faulty variant: a successful modify keeps the current service binding.
modify_keepsBinding(r, rOpts, cloud) ==
    LET in == [Actions |-> Deref(r.rs.desired).Actions,
               Conditions |-> Deref(r.rs.desired).Conditions,
               RuleArn |-> Deref(r.rs.current).RuleArn]
        o == ModifyRule(in, cloud, Deref(r.rs.current))
        call == [op |-> "ModifyRule", in |-> in, failed |-> o.err, out |-> o.Rules]
    IN  IF o.err
        THEN Res(r, <<call>>, <<Eventf(EventTypeWarning, "ERROR")>>, TRUE)
        ELSE Res([r EXCEPT !.rs.current = IF Len(o.Rules) > 0 THEN Ptr(o.Rules[1]) ELSE @],
                 <<call>>, <<>>, FALSE)

modify(r, rOpts, cloud) ==
    LET in == [Actions |-> Deref(r.rs.desired).Actions,
               Conditions |-> Deref(r.rs.desired).Conditions,
               RuleArn |-> Deref(r.rs.current).RuleArn]
        o == ModifyRule(in, cloud, Deref(r.rs.current))
        call == [op |-> "ModifyRule", in |-> in, failed |-> o.err, out |-> o.Rules]
    IN  IF o.err
        THEN Res(r, <<call>>, <<Eventf(EventTypeWarning, "ERROR")>>, TRUE)
        ELSE Res([r EXCEPT !.rs.current = IF Len(o.Rules) > 0 THEN Ptr(o.Rules[1]) ELSE @,
                           !.svc.current = r.svc.desired],
                 <<call>>, <<>>, FALSE)

\* Faulty variant: a successful delete does not set deleted.
delete_neverMarks(r, rOpts, cloud) ==
    IF r.rs.current = Nil THEN Res(r, <<>>, <<>>, FALSE)
    ELSE IF Deref(r.rs.current).IsDefault THEN Res(r, <<>>, <<>>, FALSE)
    ELSE LET in == [RuleArn |-> Deref(r.rs.current).RuleArn]
             o == DeleteRule(in, cloud)
             call == [op |-> "DeleteRule", in |-> in, failed |-> o.err, out |-> <<>>]
         IN  IF o.err
             THEN Res(r, <<call>>, <<Eventf(EventTypeWarning, "ERROR")>>, TRUE)
             ELSE Res(r, <<call>>, <<>>, FALSE)

delete(r, rOpts, cloud) ==
    IF r.rs.current = Nil THEN Res(r, <<>>, <<>>, FALSE)
    ELSE IF Deref(r.rs.current).IsDefault THEN Res(r, <<>>, <<>>, FALSE)
    ELSE LET in == [RuleArn |-> Deref(r.rs.current).RuleArn]
             o == DeleteRule(in, cloud)
             call == [op |-> "DeleteRule", in |-> in, failed |-> o.err, out |-> <<>>]
         IN  IF o.err
             THEN Res(r, <<call>>, <<Eventf(EventTypeWarning, "ERROR")>>, TRUE)
             ELSE Res([r EXCEPT !.deleted = TRUE], <<call>>, <<>>, FALSE)

\* Lines 95-99: every action of desired gets the ARN the lookup resolves.
resolveTargets(r, rOpts) ==
    IF r.rs.desired = Nil THEN r
    ELSE LET d == Deref(r.rs.desired)
             arn == TargetGroupArn(r, rOpts.TargetGroups)
         IN  [r EXCEPT !.rs.desired =
                 Ptr([d EXCEPT !.Actions = [i \in 1..Len(d.Actions) |-> [d.Actions[i] EXCEPT !.TargetGroupArn = arn]]])]

\* A step of Reconcile that succeeded, followed by its normal event.
ThenEvent(res, reason) ==
    IF res.err THEN res ELSE [res EXCEPT !.events = Append(@, Eventf(EventTypeNormal, reason))]

\* Faulty variant: the default rule is recognised only after the create case.
Reconcile_defaultLate(r0, rOpts, cloud) ==
    LET r == resolveTargets(r0, rOpts)
    IN  IF r.rs.desired = Nil THEN
            IF r.rs.current = Nil THEN Res(r, <<>>, <<>>, FALSE)
            ELSE IF Deref(r.rs.current).IsDefault = TRUE THEN Res(r, <<>>, <<>>, FALSE)
            ELSE ThenEvent(delete(r, rOpts, cloud), "DELETE")
        ELSE IF r.rs.current = Nil THEN
            ThenEvent(create(r, rOpts, cloud), "CREATE")
        ELSE IF Deref(r.rs.desired).IsDefault THEN
            Res([r EXCEPT !.rs.current = r.rs.desired], <<>>, <<>>, FALSE)
        ELSE IF needsModification(r) THEN
            ThenEvent(modify(r, rOpts, cloud), "MODIFY")
        ELSE Res(r, <<>>, <<>>, FALSE)

\* Faulty variant: the delete case does not leave the default rule out.
Reconcile_deletesDefault(r0, rOpts, cloud) ==
    LET r == resolveTargets(r0, rOpts)
    IN  IF r.rs.desired = Nil THEN
            IF r.rs.current = Nil THEN Res(r, <<>>, <<>>, FALSE)
            ELSE ThenEvent(delete(r, rOpts, cloud), "DELETE")
        ELSE IF Deref(r.rs.desired).IsDefault THEN
            Res([r EXCEPT !.rs.current = r.rs.desired], <<>>, <<>>, FALSE)
        ELSE IF r.rs.current = Nil THEN
            ThenEvent(create(r, rOpts, cloud), "CREATE")
        ELSE IF needsModification(r) THEN
            ThenEvent(modify(r, rOpts, cloud), "MODIFY")
        ELSE Res(r, <<>>, <<>>, FALSE)

Reconcile(r0, rOpts, cloud) ==
    LET r == resolveTargets(r0, rOpts)
    IN  IF r.rs.desired = Nil THEN
            IF r.rs.current = Nil THEN Res(r, <<>>, <<>>, FALSE)
            ELSE IF Deref(r.rs.current).IsDefault = TRUE THEN Res(r, <<>>, <<>>, FALSE)
            ELSE ThenEvent(delete(r, rOpts, cloud), "DELETE")
        ELSE IF Deref(r.rs.desired).IsDefault THEN
            Res([r EXCEPT !.rs.current = r.rs.desired], <<>>, <<>>, FALSE)
        ELSE IF r.rs.current = Nil THEN
            ThenEvent(create(r, rOpts, cloud), "CREATE")
        ELSE IF needsModification(r) THEN
            ThenEvent(modify(r, rOpts, cloud), "MODIFY")
        ELSE Res(r, <<>>, <<>>, FALSE)

stripDesiredState(r) == [r EXCEPT !.rs.desired = Nil]

stripCurrentState(r) == [r EXCEPT !.rs.current = Nil]

-----------------------------------------------------------------------------
(* The state machine of one Rule value.                                    *)

R == [rs |-> rs, svc |-> svc, deleted |-> deleted]

NoRule == [rs |-> [current |-> Nil, desired |-> Nil],
           svc |-> [current |-> ZeroService, desired |-> ZeroService],
           deleted |-> FALSE]

\* The Rule values reconciliation starts from: built from declared intent,
\* wrapped around a rule the cloud reports, or the two paired into one.
InitialRules ==
    LET ds == {NewDesiredRule(o) : o \in NewDesiredRuleOptions}
        cs == {NewCurrentRule(o) : o \in NewCurrentRuleOptions}
    IN  ds \cup cs \cup
        {[rs |-> [current |-> c.rs.current, desired |-> d.rs.desired],
          svc |-> [current |-> c.svc.current, desired |-> d.svc.desired],
          deleted |-> FALSE] : d \in ds, c \in cs}

CondIdle == c1 = <<>> /\ c2 = <<>> /\ ceOut = Nil

PrioIdle == prioIn = 0 /\ prioOut = Nil

NoOpts == [ports |-> Nil, inboundCidrs |-> <<>>, webACLId |-> Nil, managedSG |-> Nil, managedInstanceSG |-> Nil]

OptIdle == options = [current |-> NoOpts, desired |-> NoOpts] /\ optOut = Nil

RuleIdle ==
    /\ rs = NoRule.rs /\ svc = NoRule.svc /\ deleted = FALSE
    /\ targetGroups = <<>>
    /\ calls = <<>> /\ events = <<>> /\ err = FALSE /\ pre = NoRule /\ lastOp = "init"
    /\ prevCalls = Nil

Init ==
    /\ \E r \in InitialRules : rs = r.rs /\ svc = r.svc /\ deleted = r.deleted
    /\ targetGroups \in TargetGroupCollections
    /\ calls = <<>> /\ events = <<>> /\ err = FALSE
    /\ pre = NoRule
    /\ lastOp = "init"
    /\ prevCalls = Nil
    /\ CondIdle /\ PrioIdle /\ OptIdle

\* The cloud answered the call with a rule that has the actions and the
\* conditions the call sent.
Echoed(call) ==
    /\ ~call.failed /\ call.out # <<>>
    /\ call.out[1].Actions = call.in.Actions
    /\ {<<call.out[1].Conditions[i].Field, call.out[1].Conditions[i].Values>> : i \in 1..Len(call.out[1].Conditions)}
       = {<<call.in.Conditions[i].Field, call.in.Conditions[i].Values>> : i \in 1..Len(call.in.Conditions)}

CallReconcile ==
    \E rOpts \in [TargetGroups : {targetGroups}, ListenerArn : ListenerArns], cloud \in CloudBehaviours :
        LET res == Reconcile(R, rOpts, cloud)
        IN  /\ rs' = res.r.rs /\ svc' = res.r.svc /\ deleted' = res.r.deleted
            /\ calls' = res.calls /\ events' = res.events /\ err' = res.err
            /\ pre' = R
            /\ lastOp' = "Reconcile"
            /\ prevCalls' = IF lastOp = "Reconcile"
                            THEN Ptr([i \in 1..Len(calls) |->
                                        [op |-> calls[i].op, failed |-> calls[i].failed, echoed |-> Echoed(calls[i])]])
                            ELSE Nil
            /\ UNCHANGED <<targetGroups, condVars, prioVars, optVars>>

CallStripDesiredState ==
    /\ rs' = stripDesiredState(R).rs
    /\ calls' = <<>> /\ events' = <<>> /\ err' = FALSE /\ pre' = NoRule
    /\ lastOp' = "stripDesiredState" /\ prevCalls' = Nil
    /\ UNCHANGED <<svc, deleted, targetGroups, condVars, prioVars, optVars>>

CallStripCurrentState ==
    /\ rs' = stripCurrentState(R).rs
    /\ calls' = <<>> /\ events' = <<>> /\ err' = FALSE /\ pre' = NoRule
    /\ lastOp' = "stripCurrentState" /\ prevCalls' = Nil
    /\ UNCHANGED <<svc, deleted, targetGroups, condVars, prioVars, optVars>>

\* The target-group stage of a later pass has created a target group of
\* the collection, which now has its ARN.
TargetGroupCreated ==
    \E i \in 1..Len(targetGroups) :
        /\ targetGroups[i].arn = Nil
        /\ targetGroups' = [targetGroups EXCEPT ![i].arn = Ptr(TgArnOf(targetGroups[i].SvcName))]
        /\ calls' = <<>> /\ events' = <<>> /\ err' = FALSE /\ pre' = NoRule
        /\ lastOp' = "TargetGroupCreated" /\ prevCalls' = Nil
        /\ UNCHANGED <<rs, svc, deleted, condVars, prioVars, optVars>>

Next == CallReconcile \/ CallStripDesiredState \/ CallStripCurrentState \/ TargetGroupCreated

Spec == Init /\ [][Next]_vars

-----------------------------------------------------------------------------
(* conditionsEqual as a function of its two arguments.                     *)

InitCond ==
    /\ rs = NoRule.rs /\ svc = NoRule.svc /\ deleted = FALSE
    /\ targetGroups = <<>>
    /\ calls = <<>> /\ events = <<>> /\ err = FALSE /\ pre = NoRule /\ lastOp = "init"
    /\ prevCalls = Nil
    /\ c1 \in CondLists /\ c2 \in CondLists
    /\ ceOut = Nil
    /\ PrioIdle /\ OptIdle

CallConditionsEqual ==
    /\ ceOut = Nil
    /\ ceOut' = Ptr(conditionsEqual(c1, c2))
    /\ UNCHANGED <<c1, c2>>
    /\ UNCHANGED <<ruleVars, prioVars, optVars>>

NextCond == CallConditionsEqual

SpecCond == InitCond /\ [][NextCond]_vars

-----------------------------------------------------------------------------
(* The priority of a desired rule, from the Priority option to the string  *)
(* of the rule and back to the integer of the cloud call.                  *)

InitPrio ==
    /\ RuleIdle /\ CondIdle /\ OptIdle
    /\ prioIn \in 0..MaxPriorityArg
    /\ prioOut = Nil

CallNewDesiredRule ==
    /\ lastOp = "init"
    /\ \E b \in {x \in NewDesiredRuleOptions : x.Priority = 0} :
         LET r == NewDesiredRule([b EXCEPT !.Priority = prioIn])
         IN  rs' = r.rs /\ svc' = r.svc /\ deleted' = r.deleted
    /\ calls' = <<>> /\ events' = <<>> /\ err' = FALSE /\ pre' = NoRule
    /\ lastOp' = "NewDesiredRule" /\ prevCalls' = Nil
    /\ UNCHANGED <<targetGroups, condVars, prioVars, optVars>>

CallPriority ==
    /\ rs.desired # Nil
    /\ prioOut' = Ptr(priority(Deref(rs.desired).Priority))
    /\ UNCHANGED <<ruleVars, condVars, prioIn, optVars>>

NextPrio == CallNewDesiredRule \/ CallPriority \/ CallReconcile

SpecPrio == InitPrio /\ [][NextPrio]_vars

-----------------------------------------------------------------------------
(* The options of a LoadBalancer and their change bitmask.                 *)

securityGroupsModified == 1
subnetsModified == 2
tagsModified == 4
schemeModified == 8
attributesModified == 16
inboundCidrsModified == 32
portsModified == 64
ipAddressTypeModified == 128
webACLAssociationModified == 256

\* a | b on unsigned integers.
RECURSIVE BitOr(_, _)
BitOr(a, b) ==
    IF a = 0 THEN b
    ELSE IF b = 0 THEN a
    ELSE (IF a % 2 = 1 \/ b % 2 = 1 THEN 1 ELSE 0) + 2 * BitOr(a \div 2, b \div 2)

Ports == {80, 443}
Cidrs == {"0.0.0.0/0", "10.0.0.0/8"}
WebACLIds == {"waf-1", "waf-2"}

\* A portList is Nil (the nil slice) or Ptr of its elements in order.
PortLists == {Nil} \cup {Ptr(s) : s \in SeqsUpTo(Ports, MaxPorts)}

\* An inbound CIDR list names every CIDR at most once.
CidrLists == UNION {Perms(S) : S \in SUBSET Cidrs}

OptionalWebACLIds == {Nil} \cup {Ptr(w) : w \in WebACLIds}

CurrentOpts ==
    [ports : PortLists, inboundCidrs : CidrLists, webACLId : OptionalWebACLIds,
     managedSG : {Nil, Ptr("sg-1")}, managedInstanceSG : {Nil}]

DesiredOpts ==
    [ports : PortLists, inboundCidrs : CidrLists, webACLId : OptionalWebACLIds,
     managedSG : {Nil}, managedInstanceSG : {Nil}]

\* Less of portList, and sort.Sort on a portList: the elements in
\* ascending order, in place; the nil slice stays nil.
Less(a, b) == a < b

RECURSIVE InsertSorted(_, _)
InsertSorted(s, x) ==
    IF s = <<>> THEN <<x>>
    ELSE IF Less(Head(s), x) THEN <<Head(s)>> \o InsertSorted(Tail(s), x)
    ELSE <<x>> \o s

RECURSIVE SortedSeq(_)
SortedSeq(s) == IF s = <<>> THEN <<>> ELSE InsertSorted(SortedSeq(Tail(s)), Head(s))

sortSort(ports) == IF ports = Nil THEN Nil ELSE Ptr(SortedSeq(Deref(ports)))

\* Hash of a string slice: a content key that does not depend on the
\* order of the elements (here the bag of the elements).
Hash(strs) ==
    [x \in {strs[i] : i \in 1..Len(strs)} |-> Cardinality({i \in 1..Len(strs) : strs[i] = x})]

\* Faulty variant: the ports and the CIDRs are compared as soon as the
\* current ports are populated.
options_needsModification_portsGuardOnly(o) ==
    LET populated == o.current.ports # Nil
        ch1 == IF populated /\ Hash(o.current.inboundCidrs) # Hash(o.desired.inboundCidrs)
               THEN BitOr(0, inboundCidrsModified) ELSE 0
        sorted == IF populated
                  THEN [o EXCEPT !.current.ports = sortSort(@), !.desired.ports = sortSort(@)]
                  ELSE o
        ch2 == IF populated /\ ~DeepEqual(sorted.desired.ports, sorted.current.ports)
               THEN BitOr(ch1, portsModified) ELSE ch1
        waf == \/ o.desired.webACLId # Nil /\ o.current.webACLId = Nil
               \/ o.desired.webACLId = Nil /\ o.current.webACLId # Nil
               \/ (o.current.webACLId # Nil /\ o.desired.webACLId # Nil
                   /\ Deref(o.current.webACLId) # Deref(o.desired.webACLId))
        ch3 == IF waf THEN BitOr(ch2, webACLAssociationModified) ELSE ch2
    IN  [changes |-> ch3, o |-> sorted]

\* options.needsModification: the bitmask it returns, and the options of
\* the caller after it (the receiver is a copy, but its port slices share
\* their arrays with the caller's, and sort.Sort orders them in place).
options_needsModification(o) ==
    LET populated == o.current.ports # Nil /\ o.current.managedSG # Nil
        ch1 == IF populated /\ Hash(o.current.inboundCidrs) # Hash(o.desired.inboundCidrs)
               THEN BitOr(0, inboundCidrsModified) ELSE 0
        sorted == IF populated
                  THEN [o EXCEPT !.current.ports = sortSort(@), !.desired.ports = sortSort(@)]
                  ELSE o
        ch2 == IF populated /\ ~DeepEqual(sorted.desired.ports, sorted.current.ports)
               THEN BitOr(ch1, portsModified) ELSE ch1
        waf == \/ o.desired.webACLId # Nil /\ o.current.webACLId = Nil
               \/ o.desired.webACLId = Nil /\ o.current.webACLId # Nil
               \/ (o.current.webACLId # Nil /\ o.desired.webACLId # Nil
                   /\ Deref(o.current.webACLId) # Deref(o.desired.webACLId))
        ch3 == IF waf THEN BitOr(ch2, webACLAssociationModified) ELSE ch2
    IN  [changes |-> ch3, o |-> sorted]

InitOpts ==
    /\ RuleIdle /\ CondIdle /\ PrioIdle
    /\ options \in [current : CurrentOpts, desired : DesiredOpts]
    /\ optOut = Nil

\* optOut records the call: the options as they were when it was made,
\* and the bitmask it returned.
CallOptionsNeedsModification ==
    LET res == options_needsModification(options)
    IN  /\ options' = res.o
        /\ optOut' = Ptr([o |-> options, changes |-> res.changes])
        /\ UNCHANGED <<ruleVars, condVars, prioVars>>

NextOpts == CallOptionsNeedsModification

SpecOpts == InitOpts /\ [][NextOpts]_vars

TypeOK == lastOp \in {"init", "Reconcile", "stripDesiredState", "stripCurrentState",
                       "TargetGroupCreated", "NewDesiredRule"}

-----------------------------------------------------------------------------
(* Vocabulary of the properties.                                           *)

Reconciled == lastOp = "Reconcile"

PreDesired == Deref(pre.rs.desired)
PreCurrent == Deref(pre.rs.current)

BothPresent == pre.rs.desired # Nil /\ pre.rs.current # Nil

\* A condition list as the set of its (field, value list) pairs.
CondSet(cs) == {<<cs[i].Field, cs[i].Values>> : i \in 1..Len(cs)}

\* The ARN the target-group collection holds for desired's backend.
LookupArn ==
    LET hits == {i \in 1..Len(targetGroups) :
                    /\ targetGroups[i].SvcName = pre.svc.desired.name
                    /\ targetGroups[i].SvcPort = pre.svc.desired.port}
    IN  IF hits = {} THEN Nil
        ELSE targetGroups[CHOOSE i \in hits : \A j \in hits : i <= j].arn

\* The action list of desired once every target is the resolved ARN.
ResolvedActions == [i \in 1..Len(PreDesired.Actions) |-> [PreDesired.Actions[i] EXCEPT !.TargetGroupArn = LookupArn]]

\* The Rule value needsModification is evaluated on by the last Reconcile.
PreResolved == [pre EXCEPT !.rs.desired = Ptr([PreDesired EXCEPT !.Actions = ResolvedActions])]

SameService ==
    /\ pre.svc.current.name = pre.svc.desired.name
    /\ pre.svc.current.targetPort = pre.svc.desired.targetPort

NoCloudCall == calls = <<>>

OneCall(op) == Len(calls) = 1 /\ calls[1].op = op

Quiet == calls = <<>> /\ events = <<>> /\ err = FALSE

-----------------------------------------------------------------------------
(* C1: Reconcile is idempotent: a Rule whose current and desired are both  *)
(* present and non-default and equal when Reconcile is invoked (same       *)
(* action list, same condition set in any order, same service name and     *)
(* target port) is reconciled with no cloud call, no event and no error.   *)
(* As stated, with the action lists compared as they are stored at the     *)
(* invocation, this fails: Reconcile first writes the resolved ARN into    *)
(* desired's actions and only then compares.                               *)
C1_IdempotentAsStored ==
    (/\ Reconciled /\ BothPresent
     /\ ~PreDesired.IsDefault /\ ~PreCurrent.IsDefault
     /\ PreCurrent.Actions = PreDesired.Actions
     /\ CondSet(PreCurrent.Conditions) = CondSet(PreDesired.Conditions)
     /\ SameService)
    => Quiet

(* C1, amended: the same with the action list of desired taken after the   *)
(* target resolution that Reconcile performs first.                        *)
C1_IdempotentOnceResolved ==
    (/\ Reconciled /\ BothPresent
     /\ ~PreDesired.IsDefault /\ ~PreCurrent.IsDefault
     /\ PreCurrent.Actions = ResolvedActions
     /\ CondSet(PreCurrent.Conditions) = CondSet(PreDesired.Conditions)
     /\ SameService)
    => Quiet /\ rs.current = pre.rs.current

C1_Witness ==
    /\ Reconciled /\ BothPresent
    /\ ~PreDesired.IsDefault /\ ~PreCurrent.IsDefault
    /\ LookupArn # Nil
    /\ PreCurrent.Actions = ResolvedActions
    /\ Len(PreCurrent.Conditions) = 2
    /\ PreCurrent.Conditions # PreDesired.Conditions
    /\ CondSet(PreCurrent.Conditions) = CondSet(PreDesired.Conditions)
    /\ SameService /\ pre.svc.desired.targetPort # 0
    /\ Quiet

(* C2: default-rule immunity: when desired is the default rule, Reconcile  *)
(* issues no cloud call and returns no error whatever current is, and      *)
(* afterwards current is the desired snapshot.                             *)
C2_DefaultRuleImmunity ==
    (Reconciled /\ pre.rs.desired # Nil /\ PreDesired.IsDefault)
    => /\ NoCloudCall /\ err = FALSE
       /\ rs.current = rs.desired
       /\ rs.desired = PreResolved.rs.desired

C2_Witness ==
    /\ Reconciled /\ BothPresent /\ PreDesired.IsDefault
    /\ ~PreCurrent.IsDefault /\ PreCurrent.Conditions # <<>>
    /\ NoCloudCall /\ err = FALSE
    /\ rs.current = rs.desired /\ rs.current # pre.rs.current

(* C3: a failed CreateRule, ModifyRule or DeleteRule makes Reconcile       *)
(* return an error and emit exactly one warning event and no normal one,   *)
(* leaves the current rule, the current service binding and the deleted    *)
(* flag as they were, and the Reconcile that follows with the same         *)
(* desired state issues the same kind of call again.                       *)
CallFailed == Len(calls) > 0 /\ calls[Len(calls)].failed

C3_FailureLeavesCurrentAndIsRetried ==
    /\ (Reconciled /\ CallFailed)
       => /\ err = TRUE
          /\ events = <<Eventf(EventTypeWarning, "ERROR")>>
          /\ rs.current = pre.rs.current
          /\ svc.current = pre.svc.current
          /\ deleted = pre.deleted
    /\ (Reconciled /\ prevCalls # Nil /\ Deref(prevCalls) # <<>> /\ Deref(prevCalls)[1].failed)
       => OneCall(Deref(prevCalls)[1].op)

C3_Witness ==
    /\ Reconciled /\ prevCalls # Nil
    /\ Deref(prevCalls) = <<[op |-> "ModifyRule", failed |-> TRUE, echoed |-> FALSE]>>
    /\ OneCall("ModifyRule") /\ CallFailed
    /\ err = TRUE /\ rs.current = pre.rs.current /\ svc.current # svc.desired

(* C6: when desired lacks exactly one condition field that current has,    *)
(* both being present and non-default, needsModification is true and       *)
(* Reconcile issues exactly one ModifyRule call, addressed to current's    *)
(* rule ARN and carrying desired's actions and desired's conditions.       *)
DesiredDropsOneCondition ==
    /\ CondSet(PreDesired.Conditions) \subseteq CondSet(PreCurrent.Conditions)
    /\ Cardinality(FieldsOf(PreCurrent.Conditions) \ FieldsOf(PreDesired.Conditions)) = 1

C6_ModifyOnDroppedCondition ==
    (/\ Reconciled /\ BothPresent
     /\ ~PreDesired.IsDefault /\ ~PreCurrent.IsDefault
     /\ DesiredDropsOneCondition)
    => /\ needsModification(PreResolved)
       /\ OneCall("ModifyRule")
       /\ calls[1].in.RuleArn = PreCurrent.RuleArn
       /\ calls[1].in.Actions = ResolvedActions
       /\ calls[1].in.Conditions = PreDesired.Conditions

C6_Witness ==
    /\ Reconciled /\ BothPresent
    /\ ~PreDesired.IsDefault /\ ~PreCurrent.IsDefault
    /\ DesiredDropsOneCondition
    /\ PreCurrent.Actions = ResolvedActions /\ SameService
    /\ Len(PreCurrent.Conditions) = 2
    /\ OneCall("ModifyRule") /\ ~calls[1].failed
    /\ calls[1].in.Conditions = <<[Field |-> "host-header", Values |-> <<"a">>]>>

(* C7: a Rule whose current has a condition field that desired lacks, all  *)
(* else equal, is judged equal by the condition comparison, so that        *)
(* Reconcile issues no ModifyRule call.  The comparison runs over the      *)
(* fields of current, so this fails.                                       *)
ElseEqual ==
    /\ PreCurrent.Actions = ResolvedActions
    /\ SameService

C7_ExtraCurrentConditionIgnored ==
    (/\ Reconciled /\ BothPresent /\ ~PreDesired.IsDefault
     /\ ElseEqual
     /\ CondSet(PreDesired.Conditions) \subseteq CondSet(PreCurrent.Conditions)
     /\ FieldsOf(PreCurrent.Conditions) # FieldsOf(PreDesired.Conditions))
    => /\ conditionsEqual(PreCurrent.Conditions, PreDesired.Conditions)
       /\ ~needsModification(PreResolved)
       /\ NoCloudCall

(* C7, amended: the asymmetry runs the other way: a Rule whose desired has *)
(* a condition field that current lacks, all else equal, is judged equal,  *)
(* needsModification is false and Reconcile issues no ModifyRule call.     *)
C7_ExtraDesiredConditionIgnored ==
    (/\ Reconciled /\ BothPresent /\ ~PreDesired.IsDefault
     /\ ElseEqual
     /\ CondSet(PreCurrent.Conditions) \subseteq CondSet(PreDesired.Conditions)
     /\ FieldsOf(PreCurrent.Conditions) # FieldsOf(PreDesired.Conditions))
    => /\ conditionsEqual(PreCurrent.Conditions, PreDesired.Conditions)
       /\ ~needsModification(PreResolved)
       /\ NoCloudCall

C7_Witness ==
    /\ Reconciled /\ BothPresent /\ ~PreDesired.IsDefault /\ ~PreCurrent.IsDefault
    /\ ElseEqual
    /\ Len(PreCurrent.Conditions) = 1 /\ Len(PreDesired.Conditions) = 2
    /\ CondSet(PreCurrent.Conditions) \subseteq CondSet(PreDesired.Conditions)
    /\ NoCloudCall /\ rs.current = pre.rs.current

(* C8: legacy zero-port tolerance: with current and desired both present   *)
(* and actions, conditions and service name equal, needsModification is    *)
(* false whenever the current target port is 0 and true whenever it is     *)
(* non-zero and differs from the desired target port.                      *)
EqualButPort ==
    /\ PreCurrent.Actions = ResolvedActions
    /\ CondSet(PreCurrent.Conditions) = CondSet(PreDesired.Conditions)
    /\ pre.svc.current.name = pre.svc.desired.name

C8_ZeroPortTolerance ==
    (Reconciled /\ BothPresent /\ ~PreDesired.IsDefault /\ EqualButPort)
    => /\ pre.svc.current.targetPort = 0
          => ~needsModification(PreResolved) /\ NoCloudCall
       /\ (pre.svc.current.targetPort # 0 /\ pre.svc.current.targetPort # pre.svc.desired.targetPort)
          => needsModification(PreResolved) /\ OneCall("ModifyRule")

C8_Witness ==
    /\ Reconciled /\ BothPresent /\ ~PreDesired.IsDefault /\ EqualButPort
    /\ pre.svc.current.targetPort = 0 /\ pre.svc.desired.targetPort # 0
    /\ NoCloudCall /\ svc.current.targetPort = 0

(* C9: when desired is absent and current is present and not the default   *)
(* rule, Reconcile issues exactly one DeleteRule call, addressed to         *)
(* current's rule ARN, and no other call; when the call succeeds deleted   *)
(* becomes true, exactly one normal event is emitted and no error is       *)
(* returned.                                                               *)
C9_DeleteTransition ==
    (Reconciled /\ pre.rs.desired = Nil /\ pre.rs.current # Nil /\ ~PreCurrent.IsDefault)
    => /\ OneCall("DeleteRule")
       /\ calls[1].in.RuleArn = PreCurrent.RuleArn
       /\ ~calls[1].failed
          => /\ deleted = TRUE
             /\ events = <<Eventf(EventTypeNormal, "DELETE")>>
             /\ err = FALSE

C9_Witness ==
    /\ Reconciled /\ pre.rs.desired = Nil /\ pre.rs.current # Nil /\ ~PreCurrent.IsDefault
    /\ pre.deleted = FALSE
    /\ OneCall("DeleteRule") /\ ~calls[1].failed
    /\ deleted = TRUE /\ events = <<Eventf(EventTypeNormal, "DELETE")>>

(* C10: when desired is absent and current is absent or the default rule,  *)
(* Reconcile issues no cloud call, emits no event, returns no error and    *)
(* leaves current, the service bindings and the deleted flag unchanged.    *)
C10_NothingToDelete ==
    (Reconciled /\ pre.rs.desired = Nil /\ (pre.rs.current = Nil \/ PreCurrent.IsDefault))
    => /\ Quiet
       /\ rs = pre.rs /\ svc = pre.svc /\ deleted = pre.deleted

C10_Witness ==
    /\ Reconciled /\ pre.rs.desired = Nil /\ pre.rs.current # Nil /\ PreCurrent.IsDefault
    /\ Quiet /\ rs = pre.rs /\ svc = pre.svc /\ deleted = pre.deleted

-----------------------------------------------------------------------------
(* Properties of conditionsEqual, under SpecCond.                          *)

Compared == ceOut # Nil

(* C4: conditionsEqual decides set equality: for condition lists with      *)
(* every field at most once, the result is true if and only if both lists  *)
(* hold the same fields, each with the same value list in the same order.  *)
(* The code only walks the fields of its first argument.                   *)
C4_ConditionsEqualIsSetEquality ==
    (Compared /\ DistinctFields(c1) /\ DistinctFields(c2))
    => (Deref(ceOut) <=> CondSet(c1) = CondSet(c2))

(* C5: condition order-independence: for a condition list with pairwise    *)
(* distinct fields and any permutation of it, conditionsEqual is true in   *)
(* both directions, and replacing a list by a permutation of it changes no *)
(* verdict against any other list.                                         *)
IsPermutation(a, b) ==
    /\ Len(a) = Len(b)
    /\ \E f \in Perms(1..Len(a)) : \A i \in 1..Len(a) : b[i] = a[f[i]]

C5_OrderIndependence ==
    (Compared /\ DistinctFields(c1) /\ IsPermutation(c1, c2))
    => /\ Deref(ceOut) = TRUE
       /\ conditionsEqual(c2, c1)
       /\ \A d \in CondLists :
            /\ conditionsEqual(c1, d) = conditionsEqual(c2, d)
            /\ conditionsEqual(d, c1) = conditionsEqual(d, c2)

C5_Witness ==
    /\ Compared /\ DistinctFields(c1) /\ IsPermutation(c1, c2)
    /\ Len(c1) = 2 /\ c1 # c2
    /\ Deref(ceOut) = TRUE

-----------------------------------------------------------------------------
(* C11: when desired is present and non-default and current is absent,     *)
(* Reconcile issues exactly one CreateRule call and no other, carrying     *)
(* desired's actions with every target set to the ARN resolved from the    *)
(* target-group lookup, desired's conditions, the listener ARN of the      *)
(* reconcile options and the integer form of desired's priority; when the  *)
(* call succeeds current becomes the rule the cloud returned, the current  *)
(* service binding becomes the desired one and exactly one normal event is *)
(* emitted.                                                                *)
CreateCase == Reconciled /\ pre.rs.desired # Nil /\ ~PreDesired.IsDefault /\ pre.rs.current = Nil

C11_CreateTransition ==
    CreateCase
    => /\ OneCall("CreateRule")
       /\ calls[1].in.Actions = ResolvedActions
       /\ calls[1].in.Conditions = PreDesired.Conditions
       /\ calls[1].in.ListenerArn \in ListenerArns
       /\ \E p \in Priorities : PreDesired.Priority = FormatInt(p) /\ calls[1].in.Priority = p
       /\ ~calls[1].failed
          => /\ rs.current = Ptr(calls[1].out[1])
             /\ svc.current = pre.svc.desired
             /\ events = <<Eventf(EventTypeNormal, "CREATE")>>
             /\ err = FALSE

C11_Witness ==
    /\ CreateCase
    /\ LookupArn # Nil
    /\ Len(PreDesired.Conditions) = 2
    /\ OneCall("CreateRule") /\ ~calls[1].failed
    /\ calls[1].in.Actions = <<ForwardAction(LookupArn)>>
    /\ pre.svc.current # pre.svc.desired /\ svc.current = svc.desired
    /\ rs.current = Ptr(calls[1].out[1])
    /\ events = <<Eventf(EventTypeNormal, "CREATE")>>

(* C12: when ModifyRule returns without error but with zero rules,         *)
(* Reconcile returns no error and the current state of the rule, that is   *)
(* the current rule snapshot and the current service binding, is left as   *)
(* it was before the call.  The service binding is adopted all the same,   *)
(* so this fails.                                                          *)
ModifyReturnedNoRule == Reconciled /\ OneCall("ModifyRule") /\ ~calls[1].failed /\ calls[1].out = <<>>

C12_PartialSuccessLeavesCurrent ==
    ModifyReturnedNoRule
    => /\ err = FALSE
       /\ rs.current = pre.rs.current
       /\ svc.current = pre.svc.current

(* C12, amended: Reconcile returns no error and the current rule snapshot  *)
(* is left as it was, while the current service binding becomes the        *)
(* desired service binding.                                                *)
C12_PartialSuccessKeepsSnapshot ==
    ModifyReturnedNoRule
    => /\ err = FALSE
       /\ rs.current = pre.rs.current
       /\ svc.current = pre.svc.desired

C12_Witness ==
    /\ ModifyReturnedNoRule
    /\ pre.svc.current # pre.svc.desired
    /\ err = FALSE /\ rs.current = pre.rs.current /\ svc.current = pre.svc.desired

(* C13: a lookup that finds no target group for desired's backend, or one  *)
(* without a current ARN, is not an error of Reconcile: it takes the       *)
(* branch it would take otherwise, returns an error only when a cloud call *)
(* failed, and every CreateRule or ModifyRule call it issues carries a nil *)
(* target ARN in its actions.                                              *)
C13_LookupMissIsNotFatal ==
    (Reconciled /\ pre.rs.desired # Nil /\ LookupArn = Nil)
    => /\ err = TRUE => CallFailed
       /\ \A i \in 1..Len(calls) :
            /\ calls[i].op \in {"CreateRule", "ModifyRule"}
            /\ \A k \in 1..Len(calls[i].in.Actions) : calls[i].in.Actions[k].TargetGroupArn = Nil
       /\ PreDesired.IsDefault => NoCloudCall /\ rs.current = rs.desired
       /\ (~PreDesired.IsDefault /\ pre.rs.current = Nil) => OneCall("CreateRule")
       /\ (~PreDesired.IsDefault /\ pre.rs.current # Nil)
          => IF needsModification(PreResolved) THEN OneCall("ModifyRule") ELSE NoCloudCall

C13_Witness ==
    /\ CreateCase
    /\ \A i \in 1..Len(targetGroups) : targetGroups[i].SvcName # pre.svc.desired.name
    /\ Len(targetGroups) > 0
    /\ OneCall("CreateRule") /\ ~calls[1].failed /\ err = FALSE
    /\ calls[1].in.Actions = <<ForwardAction(Nil)>>
    /\ Deref(rs.current).Actions = <<ForwardAction(Nil)>>

(* C17: once Reconcile has deleted the rule (deleted is TRUE) and desired  *)
(* is still absent, a later Reconcile issues no cloud call and emits no    *)
(* event.                                                                  *)
C17_DeletedRuleStaysQuiet ==
    (Reconciled /\ pre.deleted /\ pre.rs.desired = Nil)
    => NoCloudCall /\ events = <<>>

(* C18: with desired present, when the Reconcile before this one issued    *)
(* only calls that succeeded and were answered with a rule that has the    *)
(* actions and the conditions sent (or issued no call at all), and         *)
(* neither desired nor the target groups were touched in between, this     *)
(* Reconcile issues no cloud call and returns no error.  By induction, of  *)
(* any run of consecutive Reconcile invocations against such a cloud only  *)
(* the first can issue a call.                                             *)
AfterConvergedReconcile ==
    /\ Reconciled /\ prevCalls # Nil /\ pre.rs.desired # Nil
    /\ \A i \in 1..Len(Deref(prevCalls)) :
         /\ Deref(prevCalls)[i].op \in {"CreateRule", "ModifyRule"}
         /\ Deref(prevCalls)[i].echoed

C18_OneStepConvergence == AfterConvergedReconcile => (NoCloudCall /\ err = FALSE)

C18_Witness ==
    /\ AfterConvergedReconcile
    /\ Deref(prevCalls) = <<[op |-> "ModifyRule", failed |-> FALSE, echoed |-> TRUE]>>
    /\ pre.svc.current = pre.svc.desired
    /\ NoCloudCall /\ err = FALSE

(* C19: when current is a non-default rule whose actions carry no target   *)
(* group (it was created before its target group had an ARN) and the       *)
(* target group of the desired service now has an ARN, Reconcile issues    *)
(* exactly one ModifyRule call, whose actions carry that ARN; when the     *)
(* call succeeds Reconcile returns no error, and the rule the cloud        *)
(* returns, which becomes current, has the ARN in its actions.             *)
NilTargets(acts) == Len(acts) > 0 /\ \A k \in 1..Len(acts) : acts[k].TargetGroupArn = Nil

LateResolution ==
    /\ Reconciled /\ BothPresent /\ ~PreDesired.IsDefault
    /\ NilTargets(PreCurrent.Actions)
    /\ LookupArn # Nil

C19_LateResolutionRepaired ==
    LateResolution
    => /\ OneCall("ModifyRule")
       /\ calls[1].in.Actions = ResolvedActions
       /\ \A k \in 1..Len(calls[1].in.Actions) : calls[1].in.Actions[k].TargetGroupArn = LookupArn
       /\ calls[1].in.RuleArn = PreCurrent.RuleArn
       /\ ~calls[1].failed
          => /\ err = FALSE
             /\ calls[1].out # <<>>
                => /\ rs.current = Ptr(calls[1].out[1])
                   /\ \A k \in 1..Len(Deref(rs.current).Actions) :
                        Deref(rs.current).Actions[k].TargetGroupArn = LookupArn

C19_Witness ==
    /\ LateResolution
    /\ PreCurrent.RuleArn = Ptr("rule-2")
    /\ OneCall("ModifyRule") /\ ~calls[1].failed
    /\ Deref(rs.current).Actions = <<ForwardAction(LookupArn)>>
    /\ Deref(rs.current).RuleArn = Ptr("rule-2")

-----------------------------------------------------------------------------
(* Properties of the priority encoding, under SpecPrio.                    *)

(* C14: for every Priority option p >= 0, the priority string of the rule  *)
(* NewDesiredRule builds is "default" when p = 0 and otherwise a string    *)
(* of decimal digits without a leading zero ("17" for 17, "105" for 105);  *)
(* priority() of that string is p; and every CreateRule call carries p as  *)
(* its Priority.                                                           *)
C14_PriorityRoundTrip ==
    /\ rs.desired # Nil
       => LET s == Deref(rs.desired).Priority
          IN  /\ prioIn = 0 <=> s = DefaultPriority
              /\ prioIn = 0 <=> Deref(rs.desired).IsDefault
              /\ prioIn # 0 => /\ \A i \in 1..Len(s) : IsDigit(s[i])
                               /\ s[1] # "0"
              /\ prioIn = 17 => s = <<"1", "7">>
              /\ prioIn = 105 => s = <<"1", "0", "5">>
              /\ priority(s) = prioIn
    /\ prioOut # Nil => Deref(prioOut) = prioIn
    /\ \A i \in 1..Len(calls) :
         calls[i].op = "CreateRule" => calls[i].in.Priority = prioIn

C14_Witness ==
    /\ prioIn = 17
    /\ rs.desired # Nil
    /\ Deref(rs.desired).Priority = <<"1", "7">>
    /\ prioOut = Ptr(17)
    /\ OneCall("CreateRule") /\ calls[1].in.Priority = 17

-----------------------------------------------------------------------------
(* Properties of options.needsModification, under SpecOpts.                *)

Classified == optOut # Nil

\* The options the call was made on, and the bitmask it returned.
Given == Deref(optOut).o
Changes == Deref(optOut).changes

HasFlag(changes, flag) == (changes \div flag) % 2 = 1

Populated == Given.current.ports # Nil /\ Given.current.managedSG # Nil

CidrSet(cidrs) == {cidrs[i] : i \in 1..Len(cidrs)}

CidrsDiffer == CidrSet(Given.current.inboundCidrs) # CidrSet(Given.desired.inboundCidrs)

\* The port lists differ whatever their order: one is absent and the other
\* is not, or neither is a rearrangement of the other.
PortsDiffer ==
    \/ (Given.current.ports = Nil) # (Given.desired.ports = Nil)
    \/ /\ Given.current.ports # Nil /\ Given.desired.ports # Nil
       /\ ~IsPermutation(Deref(Given.current.ports), Deref(Given.desired.ports))

WafDiffer ==
    \/ (Given.current.webACLId = Nil) # (Given.desired.webACLId = Nil)
    \/ /\ Given.current.webACLId # Nil /\ Given.desired.webACLId # Nil
       /\ Deref(Given.current.webACLId) # Deref(Given.desired.webACLId)

(* C15: the bitmask options.needsModification returns has the inbound-CIDR *)
(* flag exactly when current.ports and current.managedSG are populated and *)
(* the CIDR sets differ, the ports flag exactly when they are populated    *)
(* and the port lists differ whatever their order (an absent desired list  *)
(* differs from a populated current list, also from an empty one), the WAF *)
(* flag exactly when one id is absent or both are present and unequal, and *)
(* no other flag; with current.ports or current.managedSG absent it has    *)
(* neither the CIDR nor the ports flag.                                    *)
C15_OptionsBitmaskExact ==
    Classified
    => /\ HasFlag(Changes, inboundCidrsModified) <=> (Populated /\ CidrsDiffer)
       /\ HasFlag(Changes, portsModified) <=> (Populated /\ PortsDiffer)
       /\ HasFlag(Changes, webACLAssociationModified) <=> WafDiffer
       /\ \A f \in {securityGroupsModified, subnetsModified, tagsModified, schemeModified,
                    attributesModified, ipAddressTypeModified} : ~HasFlag(Changes, f)
       /\ Changes < 2 * webACLAssociationModified
       /\ ~Populated => Changes \in {0, webACLAssociationModified}

C15_Witness ==
    /\ Classified /\ Populated
    /\ Given.current.ports = Ptr(<<443, 80>>) /\ Given.desired.ports = Ptr(<<80, 443>>)
    /\ Given.current.inboundCidrs = <<"0.0.0.0/0">> /\ Given.desired.inboundCidrs = <<"10.0.0.0/8">>
    /\ Given.current.webACLId = Nil /\ Given.desired.webACLId # Nil
    /\ Changes = inboundCidrsModified + webACLAssociationModified

(* C16: evaluating options.needsModification leaves the options of the     *)
(* caller, the order of the current and the desired port list included,    *)
(* as they were.                                                           *)
C16_ClassifierIsPure == [][options' = options]_vars

====
